---- MODULE Spec2Model ----
(***************************************************************************)
(* Model of the Nixie clock firmware (src/Arduino/nixie.ino).              *)
(*                                                                         *)
(* The firmware is one main control flow (setup, then loop forever) that   *)
(* is preempted by one interrupt handler, updateTime, attached to the      *)
(* 1 Hz square wave of the DS3234 real-time clock.  The main flow is       *)
(* modelled by a program counter pc; the handler runs atomically (the AVR  *)
(* does not let the main flow run while a handler is executing) and has    *)
(* priority over the main flow whenever its interrupt is attached and      *)
(* pending.                                                                *)
(***************************************************************************)
EXTENDS Integers, Sequences, FiniteSets, TLC

(***************************************************************************)
(* Program constants.                                                      *)
(***************************************************************************)
minBrightness == 50
maxBrightness == 100
ldrDark == 80
ldrBright == 830

al1ButtonVal == 0
upButtonVal == 132
downButtonVal == 320
al2ButtonVal == 487
setButtonVal == 502
modeButtonVal == 0
buttonRange == 10

noButton == 0
al1Button == 1
upButton == 2
downButton == 3
al2Button == 4
setButton == 5
modeButton == 6

switchInterval == 5

MODE_DISPLAY_TIME == 0
MODE_DISPLAY_DATETIME == 1
MODE_SET == 2

day == 0
month == 1
year == 2

hours == 0
minutes == 1
seconds == 2

\* The value the flows put in a field of a triple to blank its two digits.
blankField == 100

\* buttonIsHeld adds 20 per poll and answers true above 800.
heldStep == 20
heldLimit == 800

LOW == FALSE
HIGH == TRUE

(***************************************************************************)
(* Bounds of the model.                                                    *)
(***************************************************************************)
\* Events of the environment in one behaviour: seconds the RTC counts,
\* button presses handleButtons acts on, up/down nudges the edit loops accept.
MaxEvents == 4
\* Width of the band of out-of-range values fed to the restrict routines.
MaxExcess == 2

(***************************************************************************)
(* Arrays of the program: int[3] and int[2] are functions on 0..2, 0..1.   *)
(***************************************************************************)
Arr2(a, b) == (0 :> a) @@ (1 :> b)
Arr3(a, b, c) == (0 :> a) @@ (1 :> b) @@ (2 :> c)

\* memcpy(dst, src, sizeof(int[2])) into an int[3]: the third element stays.
Copy2Into3(dst, src) == Arr3(src[0], src[1], dst[2])

\* C integer division truncates toward zero.
TruncDiv(a, b) == IF a >= 0 THEN a \div b ELSE -((-a) \div b)

(***************************************************************************)
(* restrictAlarm, restrictTime, restrictDate                               *)
(***************************************************************************)
\* Mutant: clamps to the nearest bound instead of wrapping to the far one.
WrapClamped(v, lo, hi) == IF v > hi THEN hi ELSE IF v < lo THEN lo ELSE v

\* The shape of every line of the three routines:
\*   if (x > hi) x = lo; else if (x < lo) x = hi;
Wrap(v, lo, hi) == IF v > hi THEN lo ELSE IF v < lo THEN hi ELSE v

restrictAlarm(a) == Arr2(Wrap(a[hours], 0, 23), Wrap(a[minutes], 0, 59))

restrictTime(t) ==
    Arr3(Wrap(t[hours], 0, 23), Wrap(t[minutes], 0, 59), Wrap(t[seconds], 0, 59))

restrictDate(d) ==
    Arr3(Wrap(d[day], 1, 31), Wrap(d[month], 1, 12), Wrap(d[year], 0, 99))

(***************************************************************************)
(* RTC register codec: setDateTime and readDateTime.                       *)
(* The register block is a function on 0..6 of bytes; register 3 is the    *)
(* one neither routine touches.                                            *)
(***************************************************************************)
RtcRegs == {0, 1, 2, 4, 5, 6}

\* One pass of the loop body of setDateTime for register i holding v:
\*   b = v / 10; a = v - b * 10; (i == 2: b stays 2 or 1); byte a + (b << 4).
\* SPI.transfer sends the low 8 bits.
EncodeReg(i, v) ==
    LET b == TruncDiv(v, 10)
        a == v - b * 10
        bb == IF i = 2 THEN (IF b = 2 THEN 2 ELSE IF b = 1 THEN 1 ELSE b) ELSE b
    IN  (a + bb * 16) % 256

\* Mutant: every register decoded with the 3-bit tens mask of minutes/seconds.
DecodeRegOneMask(i, n) == (n % 16) + ((n \div 16) % 8) * 10

\* One pass of the loop body of readDateTime for register i read as byte n.
DecodeReg(i, n) ==
    LET a == n % 16
    IN  IF i = 2
        THEN LET b == (n \div 16) % 4
             IN  a + (IF b = 2 THEN 20 ELSE IF b = 1 THEN 10 ELSE b)
        ELSE IF i = 4 THEN a + ((n \div 16) % 4) * 10
        ELSE IF i = 5 THEN a + ((n \div 16) % 2) * 10
        ELSE IF i = 6 THEN a + ((n \div 16) % 16) * 10
        ELSE a + ((n \div 16) % 8) * 10

\* The registers setDateTime(date, time) writes, in the order it writes them.
WrittenRegs == <<0, 1, 2, 4, 5, 6>>

\* TimeDate[] of setDateTime: second, minute, hour, (null), day, month, year.
TimeDateOf(d, t) ==
    (0 :> t[seconds]) @@ (1 :> t[minutes]) @@ (2 :> t[hours]) @@ (3 :> 0)
    @@ (4 :> d[day]) @@ (5 :> d[month]) @@ (6 :> d[year])

\* setDateTime: the register block after the call, given the block before.
setDateTime(regs, d, t) ==
    [i \in 0..6 |-> IF i \in RtcRegs THEN EncodeReg(i, TimeDateOf(d, t)[i])
                    ELSE regs[i]]

\* readDateTime: the date and time globals after the call.
readDate(regs) ==
    Arr3(DecodeReg(4, regs[4]), DecodeReg(5, regs[5]), DecodeReg(6, regs[6]))

readTime(regs) ==
    Arr3(DecodeReg(2, regs[2]), DecodeReg(1, regs[1]), DecodeReg(0, regs[0]))

(***************************************************************************)
(* buttonPressed, isInRange, readAvgAnalog                                 *)
(***************************************************************************)
isInRange(value, compare, range) ==
    value >= (compare - range) /\ value <= (compare + range)

RECURSIVE SumSeq(_)
SumSeq(s) == IF s = <<>> THEN 0 ELSE Head(s) + SumSeq(Tail(s))

\* readAvgAnalog: the samples' total divided by their number.
readAvgAnalog(samples) == TruncDiv(SumSeq(samples), Len(samples))

\* n equal samples of one level.
Steady(level, n) == [k \in 1..n |-> level]

\* buttonPressed on a front line and a rear line held at steady levels.
buttonPressed(front, rear) ==
    LET frontReading == readAvgAnalog(Steady(front, 25))
        rearReading == readAvgAnalog(Steady(rear, 5))
    IN  IF isInRange(frontReading, al1ButtonVal, buttonRange) THEN al1Button
        ELSE IF isInRange(frontReading, upButtonVal, buttonRange) THEN upButton
        ELSE IF isInRange(frontReading, downButtonVal, buttonRange) THEN downButton
        ELSE IF isInRange(frontReading, al2ButtonVal, buttonRange) THEN al2Button
        ELSE IF isInRange(rearReading, modeButtonVal, buttonRange) THEN modeButton
        ELSE IF isInRange(rearReading, setButtonVal, buttonRange) THEN setButton
        ELSE noButton

\* Levels of the two lines: each button's nominal level, and the idle level
\* of a line with no button down.
idleLevel == 1023
FrontLevels == {al1ButtonVal, upButtonVal, downButtonVal, al2ButtonVal, idleLevel}
RearLevels == {modeButtonVal, setButtonVal, idleLevel}

\* What one poll can decode to.
Polls == {buttonPressed(f, r) : f \in FrontLevels, r \in RearLevels}

(***************************************************************************)
(* updateBrightness                                                        *)
(***************************************************************************)
\* Arduino map(): (x - in_min) * (out_max - out_min) / (in_max - in_min) + out_min
map(x, inMin, inMax, outMin, outMax) ==
    TruncDiv((x - inMin) * (outMax - outMin), inMax - inMin) + outMin

constrain(x, lo, hi) == IF x < lo THEN lo ELSE IF x > hi THEN hi ELSE x

\* The percent the light reading asks for.
TargetBrightness(reading) ==
    constrain(map(reading, ldrDark, ldrBright, minBrightness, maxBrightness),
              minBrightness, maxBrightness)

\* Mutant: jumps to the target at once.
NextBrightnessJump(last, reading) == TargetBrightness(reading)

\* The new lastBrightness: one step from the old one toward the target.
NextBrightness(last, reading) ==
    LET brightnessPercent == TargetBrightness(reading)
    IN  IF brightnessPercent > last THEN last + 1
        ELSE IF brightnessPercent < last THEN last - 1
        ELSE brightnessPercent

(***************************************************************************)
(* The DS3234: its register block counts one second per period of the      *)
(* square wave that drives interrupt 0.                                    *)
(***************************************************************************)
Bcd(v) == (v \div 10) * 16 + (v % 10)
UnBcd(n) == (n \div 16) * 10 + (n % 16)

DaysIn(mo, y) ==
    IF mo \in {4, 6, 9, 11} THEN 30
    ELSE IF mo = 2 THEN (IF y % 4 = 0 THEN 29 ELSE 28)
    ELSE 31

\* The register block holding date d and time t, as the chip keeps it.
RegsOf(d, t) ==
    (0 :> Bcd(t[seconds])) @@ (1 :> Bcd(t[minutes])) @@ (2 :> Bcd(t[hours]))
    @@ (3 :> 1)
    @@ (4 :> Bcd(d[day])) @@ (5 :> Bcd(d[month])) @@ (6 :> Bcd(d[year]))

\* The register block one second later.
RtcAdvance(regs) ==
    LET s == UnBcd(regs[0])
        m == UnBcd(regs[1])
        h == UnBcd(regs[2])
        d == UnBcd(regs[4])
        mo == UnBcd(regs[5])
        y == UnBcd(regs[6])
        cs == s >= 59
        cm == cs /\ m >= 59
        ch == cm /\ h >= 23
        cd == ch /\ d >= DaysIn(mo, y)
        cmo == cd /\ mo >= 12
        t2 == Arr3(IF ch THEN 0 ELSE IF cm THEN h + 1 ELSE h,
                   IF cm THEN 0 ELSE IF cs THEN m + 1 ELSE m,
                   IF cs THEN 0 ELSE s + 1)
        d2 == Arr3(IF cd THEN 1 ELSE IF ch THEN d + 1 ELSE d,
                   IF cmo THEN 1 ELSE IF cd THEN mo + 1 ELSE mo,
                   IF cmo THEN (y + 1) % 100 ELSE y)
    IN  [RegsOf(d2, t2) EXCEPT ![3] = IF ch THEN (regs[3] % 7) + 1 ELSE regs[3]]

(***************************************************************************)
(* State.                                                                  *)
(***************************************************************************)
VARIABLES
    time,           \* int time[3]
    date,           \* int date[3]
    prevTime,       \* int prevTime[3]
    mode,           \* volatile int mode
    cathodeClean,   \* volatile bool cathodeClean
    alarmSettings,  \* struct alarmSettings_t alarmSettings
    lastBrightness, \* int lastBrightness
    eeprom,         \* the block at EEPROM address 0
    rtc,            \* the register block of the DS3234
    intEnabled,     \* interrupt 0 is attached to updateTime
    intFlag,        \* a falling edge of the square wave is pending
    nEvents,        \* events of the environment so far
    ldr,            \* level of the light sensor line
    pc,             \* where the main flow is
    ret,            \* who called handleButtons: "loop" or "buzz"
    alK,            \* the alarm handleAlarms is on
    button,         \* parameter of buttonIsHeld
    buttonHeldFor,  \* local of buttonIsHeld
    polled,         \* what the last buttonPressed() of buttonIsHeld decoded
    delayed,        \* a second has been counted since delay(1000) began
    alarm,          \* parameter of enableAlarm, disableAlarm, setAlarm
    prevMode,       \* local of the three flows
    newAlarm,       \* local of setAlarm
    newDate,        \* local of changeDateTime
    newTime,        \* local of changeDateTime
    i,              \* field index of the edit loops and of displayTime
    buzzer,         \* level of buzzerPin
    al1Light,       \* level of al1Light
    al2Light,       \* level of al2Light
    decimalPoint,   \* level of decimalPoint
    display,        \* what the last strobe latched
    shiftReg,       \* the six frames shifted last, each by the render it is from
    render          \* what the last run of updateTime rendered

clockVars == <<time, date, prevTime, cathodeClean, render>>
rtcVars == <<rtc, intFlag>>
alarmVars == <<alarmSettings, eeprom, al1Light, al2Light>>
flowVars == <<alarm, prevMode, newAlarm, newDate, newTime, i>>
heldVars == <<button, buttonHeldFor, polled>>
lightVars == <<lastBrightness, ldr>>

vars == <<time, date, prevTime, mode, cathodeClean, alarmSettings, lastBrightness,
          eeprom, rtc, intEnabled, intFlag, nEvents, ldr, pc, ret, alK, button,
          buttonHeldFor, polled,
          delayed, alarm, prevMode, newAlarm, newDate, newTime, i,
          buzzer, al1Light, al2Light, decimalPoint, display, shiftReg, render>>

\* The shift registers after displayTime (lines 548-555) has shifted all six
\* frames of one triple of kind k.
Six(k) == [n \in 1..6 |-> k]

\* One pass of displayTime's loop (lines 549-555): two frames of kind k are
\* shifted in, the two oldest frames drop out.
shift10Twice(reg, k) == SubSeq(reg, 3, 6) \o <<k, k>>

\* What the strobe of lines 557-558 latches: the six frames in the registers.
strobe(reg) == IF \A n \in 1..6 : reg[n] = reg[1] THEN reg[1] ELSE "mixed"

\* The kinds of triple a strobe can latch.
DisplayKinds == {"blank", "time", "date", "alarm", "edit", "clean"}
\* What one run of updateTime can render.
RenderKinds == {"none", "fade", "time", "date"}

\* The main flow runs only while no attached interrupt is pending.
MainRuns == ~(intEnabled /\ intFlag)

AlEnabled(s, k) == IF k = 1 THEN s.al1Enabled ELSE s.al2Enabled
AlTime(s, k) == IF k = 1 THEN s.al1Time ELSE s.al2Time

(***************************************************************************)
(* Power-on.                                                               *)
(***************************************************************************)
\* Times and dates the battery-backed RTC may hold at power-on: just before
\* a minute that is a multiple of 20, and just before one that is not.
InitTimes == {Arr3(7, 19, 59), Arr3(7, 20, 58)}
InitDates == {Arr3(31, 12, 99)}

\* Blocks the EEPROM may hold at power-on: set-points in the minutes the RTC
\* is about to reach, and corrupted ones on either side of the ranges.
Block(e1, e2, t1, t2) ==
    [al1Enabled |-> e1, al2Enabled |-> e2, al1Time |-> t1, al2Time |-> t2]

EepromContents ==
    {Block(TRUE, TRUE, Arr2(7, 21), Arr2(7, 21)),
     Block(TRUE, FALSE, Arr2(7, 20), Arr2(7, 21)),
     Block(FALSE, TRUE, Arr2(24, 60), Arr2(7, 20)),
     Block(FALSE, FALSE, Arr2(7, 21), Arr2(-1, -1))}

\* The initialisers of the globals (lines 23, 66-68, 70-76, 105, 116).
Init ==
    /\ time = Arr3(0, 0, 0)
    /\ date = Arr3(1, 1, 0)
    /\ prevTime = Arr3(0, 0, 0)
    /\ mode = MODE_DISPLAY_TIME
    /\ cathodeClean = FALSE
    /\ alarmSettings = [al1Enabled |-> FALSE, al2Enabled |-> FALSE,
                        al1Time |-> Arr2(0, 0), al2Time |-> Arr2(0, 0)]
    /\ lastBrightness = minBrightness
    /\ eeprom \in EepromContents
    /\ rtc \in {RegsOf(d, t) : d \in InitDates, t \in InitTimes}
    /\ intEnabled = FALSE
    /\ intFlag = FALSE
    /\ nEvents = 0
    /\ ldr = ldrDark
    /\ pc = "setup"
    /\ ret = "loop"
    /\ alK = 1
    /\ button = noButton
    /\ buttonHeldFor = 0
    /\ polled = noButton
    /\ delayed = FALSE
    /\ alarm = 1
    /\ prevMode = MODE_DISPLAY_TIME
    /\ newAlarm = Arr2(0, 0)
    /\ newDate = Arr3(1, 1, 0)
    /\ newTime = Arr3(0, 0, 0)
    /\ i = 0
    /\ buzzer = LOW
    /\ al1Light = LOW
    /\ al2Light = LOW
    /\ decimalPoint = LOW
    /\ display = "blank"
    /\ shiftReg = Six(display)
    /\ render = "none"

(***************************************************************************)
(* The RTC counts a second and pulls the square wave low.                  *)
(***************************************************************************)
RtcSecond ==
    /\ nEvents < MaxEvents
    /\ ~(intEnabled /\ intFlag)
    /\ rtc' = RtcAdvance(rtc)
    /\ intFlag' = TRUE
    /\ nEvents' = nEvents + 1
    /\ delayed' = TRUE
    /\ UNCHANGED <<clockVars, mode, alarmVars, flowVars, heldVars, lightVars,
                   intEnabled, pc, ret, alK, buzzer, decimalPoint, display, shiftReg>>

(***************************************************************************)
(* updateTime and updateDisplay: the interrupt handler.                    *)
(***************************************************************************)
\* Mutant: the cleaning window is one second longer.
CleanWindowLong(t, m) ==
    (t[minutes] % 20) = 0 /\ t[seconds] <= 3 /\ m # MODE_SET

\* Mutant: the cleaning window is entered in Set mode as well.
CleanWindowAnyMode(t, m) ==
    (t[minutes] % 20) = 0 /\ t[seconds] < 3

\* Mutant: the cleaning window lasts the whole minute.
CleanWindowWholeMinute(t, m) ==
    (t[minutes] % 20) = 0 /\ m # MODE_SET

\* cathodeClean as line 152 computes it from the time just read.
CleanWindow(t, m) ==
    (t[minutes] % 20) = 0 /\ t[seconds] < 3 /\ m # MODE_SET

\* What updateDisplay renders in mode m at time t.
updateDisplayKind(m, t) ==
    IF m = MODE_DISPLAY_TIME THEN "fade"
    ELSE IF m = MODE_DISPLAY_DATETIME
    THEN IF (t[seconds] \div switchInterval) % 2 = 0
         THEN (IF t[seconds] = 0 THEN "time" ELSE "fade")
         ELSE "date"
    ELSE "none"

\* The level updateDisplay leaves on the decimal point.
updateDisplayPoint(m, t, dp) ==
    IF m = MODE_DISPLAY_TIME THEN LOW
    ELSE IF m = MODE_DISPLAY_DATETIME
    THEN IF (t[seconds] \div switchInterval) % 2 = 0 THEN LOW
         ELSE (t[seconds] % 2) = 0
    ELSE dp

\* Mutant: the snapshot is taken only when the handler has rendered.
memcpyPrevTimeIfRendered(prev, t, clean) == IF clean THEN prev ELSE t

\* prevTime after line 157: memcpy(prevTime, time, sizeof(time)), outside the
\* if of line 154, whatever cathodeClean is.
memcpyPrevTime(prev, t, clean) == t

\* What the strobe holds after a render of kind k.
Latched(k, old) == IF k = "none" THEN old ELSE IF k = "date" THEN "date" ELSE "time"

updateTime ==
    /\ intEnabled /\ intFlag
    /\ intFlag' = FALSE
    /\ time' = readTime(rtc)
    /\ date' = readDate(rtc)
    /\ cathodeClean' = CleanWindow(time', mode)
    /\ render' = IF cathodeClean' THEN "none" ELSE updateDisplayKind(mode, time')
    /\ display' = Latched(render', display)
    /\ shiftReg' = IF render' = "none" THEN shiftReg ELSE Six(display')
    /\ decimalPoint' = IF cathodeClean' THEN decimalPoint
                       ELSE updateDisplayPoint(mode, time', decimalPoint)
    /\ prevTime' = memcpyPrevTime(prevTime, time', cathodeClean')
    /\ UNCHANGED <<mode, alarmVars, flowVars, heldVars, lightVars, rtc, nEvents,
                   intEnabled, pc, ret, alK, delayed, buzzer>>

(***************************************************************************)
(* setup and loadAlarmSettings                                             *)
(***************************************************************************)
\* Mutant: the block is taken as read, without restrictAlarm.
loadAlarmSettingsRaw(block) == block

\* alarmSettings after loadAlarmSettings reads block.
loadAlarmSettings(block) ==
    [block EXCEPT !.al1Time = restrictAlarm(block.al1Time),
                  !.al2Time = restrictAlarm(block.al2Time)]

\* Lines 120-144.  The interrupt is attached at line 127, before the load of
\* line 134; a run of updateTime between the two touches nothing the load
\* touches, so it is taken after the last line.
setup ==
    /\ pc = "setup"
    /\ intEnabled' = TRUE
    /\ buzzer' = LOW
    /\ alarmSettings' = loadAlarmSettings(eeprom)
    /\ al1Light' = alarmSettings'.al1Enabled
    /\ al2Light' = alarmSettings'.al2Enabled
    /\ display' = "blank"
    /\ shiftReg' = Six("blank")
    /\ pc' = "loop"
    /\ UNCHANGED <<clockVars, rtcVars, nEvents, mode, eeprom, flowVars, heldVars, lightVars,
                   ret, alK, delayed, decimalPoint>>

(***************************************************************************)
(* loop                                                                    *)
(***************************************************************************)
\* Line 185: updateBrightness().
updateBrightness ==
    /\ lastBrightness' = NextBrightness(lastBrightness, readAvgAnalog(Steady(ldr, 5)))
    /\ UNCHANGED ldr

loopBrightness ==
    /\ pc = "loop" /\ MainRuns
    /\ updateBrightness
    /\ pc' = "hb_poll"
    /\ UNCHANGED <<clockVars, rtcVars, nEvents, mode, alarmVars, flowVars, heldVars,
                   intEnabled, ret, alK, delayed, buzzer, decimalPoint, display, shiftReg>>

\* Where the main flow is while in the cleaning sub-loop of lines 191-194.
CleanPcs == {"clean", "cd_shift", "cd_strobe"}

\* Lines 191-196: the test of the cleaning sub-loop; cycleDigits enters
\* displayTime with i = 2 (line 548), otherwise delay(15) ends the pass.
loopClean ==
    /\ pc = "clean" /\ MainRuns
    /\ IF cathodeClean
       THEN pc' = "cd_shift" /\ i' = 2
       ELSE pc' = "loop" /\ i' = i
    /\ UNCHANGED <<clockVars, rtcVars, nEvents, mode, alarmVars, heldVars, lightVars,
                   alarm, prevMode, newAlarm, newDate, newTime,
                   intEnabled, ret, alK, delayed, buzzer, decimalPoint, display, shiftReg>>

\* Lines 549-555 under cycleDigits: one pass of displayTime's loop shifts the
\* two digits of randomDigits[i].
cycleDigitsShift ==
    /\ pc = "cd_shift" /\ MainRuns
    /\ shiftReg' = shift10Twice(shiftReg, "clean")
    /\ IF i > 0
       THEN pc' = pc /\ i' = i - 1
       ELSE pc' = "cd_strobe" /\ i' = 0
    /\ UNCHANGED <<clockVars, rtcVars, nEvents, mode, alarmVars, heldVars, lightVars,
                   alarm, prevMode, newAlarm, newDate, newTime,
                   intEnabled, ret, alK, delayed, buzzer, decimalPoint, display>>

\* Lines 557-558 under cycleDigits, then delay(100) of line 193.
cycleDigitsStrobe ==
    /\ pc = "cd_strobe" /\ MainRuns
    /\ display' = strobe(shiftReg)
    /\ pc' = "clean"
    /\ UNCHANGED <<clockVars, rtcVars, nEvents, mode, alarmVars, flowVars, heldVars, lightVars,
                   intEnabled, ret, alK, delayed, buzzer, decimalPoint, shiftReg>>

(***************************************************************************)
(* handleButtons and buttonIsHeld                                          *)
(***************************************************************************)
\* Where handleButtons returns to.
ReturnPc == IF ret = "loop" THEN "al_chk_en" ELSE "al_while"

\* Mutant: the mode button also leaves Set.
ToggleModeFromSet(m) ==
    IF m = MODE_DISPLAY_DATETIME THEN MODE_DISPLAY_TIME ELSE MODE_DISPLAY_DATETIME

\* Lines 240-243.
ToggleMode(m) ==
    IF m = MODE_DISPLAY_DATETIME THEN MODE_DISPLAY_TIME
    ELSE IF m = MODE_DISPLAY_TIME THEN MODE_DISPLAY_DATETIME
    ELSE m

\* The switch of handleButtons on one poll.
handleButtons ==
    /\ pc = "hb_poll" /\ MainRuns
    /\ \E b \in Polls :
         IF b \in {setButton, al1Button, al2Button}
         THEN /\ nEvents < MaxEvents
              /\ nEvents' = nEvents + 1
              /\ button' = b
              /\ UNCHANGED <<buttonHeldFor, polled>>
              /\ pc' = "held"
              /\ mode' = mode
         ELSE IF b = modeButton
         THEN /\ nEvents < MaxEvents
              /\ nEvents' = nEvents + 1
              /\ mode' = ToggleMode(mode)
              /\ pc' = "hb_debounce"
              /\ UNCHANGED heldVars
         ELSE /\ pc' = ReturnPc
              /\ UNCHANGED <<heldVars, mode, nEvents>>
    /\ UNCHANGED <<clockVars, rtcVars, alarmVars, lightVars, alarm, prevMode, newAlarm,
                   newDate, newTime, i,
                   intEnabled, ret, alK, delayed, buzzer, decimalPoint, display, shiftReg>>

\* Line 244: delay(buttonDebounce) after the mode button.
modeDebounce ==
    /\ pc = "hb_debounce" /\ MainRuns
    /\ pc' = ReturnPc
    /\ UNCHANGED <<clockVars, rtcVars, nEvents, mode, alarmVars, flowVars, heldVars, lightVars,
                   intEnabled, ret, alK, delayed, buzzer, decimalPoint, display, shiftReg>>

\* Where the main flow goes when buttonIsHeld(b) answers held.
AfterHeld(b, held, s) ==
    IF b = setButton THEN (IF held THEN "cdt_entry" ELSE ReturnPc)
    ELSE IF held THEN "sa_entry"
    ELSE IF AlEnabled(s, IF b = al1Button THEN 1 ELSE 2) THEN "da" ELSE "ea_entry"

\* Mutant: the loop answers held as soon as the count reaches the limit.
RECURSIVE buttonIsHeldFromAtLimit(_, _, _)
buttonIsHeldFromAtLimit(b, polls, heldFor) ==
    IF polls = <<>> \/ Head(polls) # b THEN FALSE
    ELSE IF heldFor + heldStep >= heldLimit THEN TRUE
    ELSE buttonIsHeldFromAtLimit(b, Tail(polls), heldFor + heldStep)

\* The loop of buttonIsHeld(b) from the state with the given buttonHeldFor,
\* on the polls that buttonPressed() then decodes.
RECURSIVE buttonIsHeldFrom(_, _, _)
buttonIsHeldFrom(b, polls, heldFor) ==
    IF polls = <<>> \/ Head(polls) # b THEN FALSE
    ELSE IF heldFor + heldStep > heldLimit THEN TRUE
    ELSE buttonIsHeldFrom(b, Tail(polls), heldFor + heldStep)

buttonIsHeld(b, polls) == buttonIsHeldFrom(b, polls, 0)

\* Button b decoded by n polls in a row, then released.
Pressed(b, n) == [k \in 1..(n + 1) |-> IF k <= n THEN b ELSE noButton]

\* How long a press lasts after the poll of handleButtons: released at
\* once, or after 1, 40 or 41 further polls.
PressLengths == {0, 1, 40, 41}

\* The call of buttonIsHeld in handleButtons and the branch on its answer.
\* buttonIsHeld reads only the button lines and its own counter, which the
\* handler does not touch, so the call is one step of the main flow.
handleButtonsHeld ==
    /\ pc = "held" /\ MainRuns
    /\ \E held \in {buttonIsHeld(button, Pressed(button, n)) : n \in PressLengths} :
         /\ pc' = AfterHeld(button, held, alarmSettings)
         /\ alarm' = IF button # setButton
                     THEN (IF button = al1Button THEN 1 ELSE 2)
                     ELSE alarm
    /\ button' = noButton
    /\ UNCHANGED <<buttonHeldFor, polled>>
    /\ UNCHANGED <<clockVars, rtcVars, nEvents, mode, alarmVars, lightVars, prevMode,
                   newAlarm, newDate, newTime, i,
                   intEnabled, ret, alK, delayed, buzzer, decimalPoint, display, shiftReg>>

(***************************************************************************)
(* saveAlarmSettings, enableAlarm, disableAlarm, setAlarm                  *)
(***************************************************************************)
\* Mutant: the enabled flags are not written.
saveAlarmSettingsTimesOnly(block, s) ==
    [s EXCEPT !.al1Enabled = block.al1Enabled, !.al2Enabled = block.al2Enabled]

\* The EEPROM block after saveAlarmSettings, given the block before.
saveAlarmSettings(block, s) == s

SetEnabled(s, k, v) ==
    IF k = 1 THEN [s EXCEPT !.al1Enabled = v] ELSE [s EXCEPT !.al2Enabled = v]

SetAlTime(s, k, t) ==
    IF k = 1 THEN [s EXCEPT !.al1Time = t] ELSE [s EXCEPT !.al2Time = t]

\* Mutant: the flows leave in DisplayTime whatever the mode was before.
RestoreModeDefault(saved) == MODE_DISPLAY_TIME

\* mode = prevMode, the last assignment of the three flows.
RestoreMode(saved) == saved

\* The locals of the flows go out of scope.
FlowLocalsDead ==
    /\ alarm' = 1
    /\ prevMode' = MODE_DISPLAY_TIME
    /\ newAlarm' = Arr2(0, 0)
    /\ newDate' = Arr3(1, 1, 0)
    /\ newTime' = Arr3(0, 0, 0)
    /\ i' = 0

\* Lines 306-315.
disableAlarm ==
    /\ pc = "da" /\ MainRuns
    /\ alarmSettings' = SetEnabled(alarmSettings, alarm, FALSE)
    /\ al1Light' = IF alarm = 1 THEN LOW ELSE al1Light
    /\ al2Light' = IF alarm = 1 THEN al2Light ELSE LOW
    /\ eeprom' = saveAlarmSettings(eeprom, alarmSettings')
    /\ pc' = ReturnPc
    /\ FlowLocalsDead
    /\ UNCHANGED <<clockVars, rtcVars, nEvents, mode, heldVars, lightVars,
                   intEnabled, ret, alK, delayed, buzzer, decimalPoint, display, shiftReg>>

\* Lines 282-295 of enableAlarm.
enableAlarmEntry ==
    /\ pc = "ea_entry" /\ MainRuns
    /\ prevMode' = mode
    /\ mode' = MODE_SET
    /\ alarmSettings' = SetEnabled(alarmSettings, alarm, TRUE)
    /\ al1Light' = IF alarm = 1 THEN HIGH ELSE al1Light
    /\ al2Light' = IF alarm = 1 THEN al2Light ELSE HIGH
    /\ pc' = "ea_show"
    /\ UNCHANGED <<clockVars, rtcVars, nEvents, eeprom, heldVars, lightVars, alarm, newAlarm,
                   newDate, newTime, i,
                   intEnabled, ret, alK, delayed, buzzer, decimalPoint, display, shiftReg>>

\* Lines 297-298 of enableAlarm, and the start of delay(1000).
enableAlarmShow ==
    /\ pc = "ea_show" /\ MainRuns
    /\ display' = "alarm"
    /\ shiftReg' = Six("alarm")
    /\ eeprom' = saveAlarmSettings(eeprom, alarmSettings)
    /\ delayed' = FALSE
    /\ pc' = "ea_delay"
    /\ UNCHANGED <<clockVars, rtcVars, nEvents, mode, alarmSettings, al1Light, al2Light,
                   flowVars, heldVars, lightVars,
                   intEnabled, ret, alK, buzzer, decimalPoint>>

\* Line 300: delay(1000) spans a period of the 1 Hz square wave.
enableAlarmDelay ==
    /\ pc = "ea_delay" /\ MainRuns
    /\ delayed
    /\ pc' = "ea_exit"
    /\ UNCHANGED <<clockVars, rtcVars, nEvents, mode, alarmVars, flowVars, heldVars, lightVars,
                   intEnabled, ret, alK, delayed, buzzer, decimalPoint, display, shiftReg>>

\* Lines 302-303 of enableAlarm.
enableAlarmExit ==
    /\ pc = "ea_exit" /\ MainRuns
    /\ display' = "time"
    /\ shiftReg' = Six("time")
    /\ mode' = RestoreMode(prevMode)
    /\ pc' = ReturnPc
    /\ FlowLocalsDead
    /\ UNCHANGED <<clockVars, rtcVars, nEvents, alarmVars, heldVars, lightVars,
                   intEnabled, ret, alK, delayed, buzzer, decimalPoint>>

\* Lines 318-330 of setAlarm.
setAlarmEntry ==
    /\ pc = "sa_entry" /\ MainRuns
    /\ prevMode' = mode
    /\ mode' = MODE_SET
    /\ newAlarm' = AlTime(alarmSettings, alarm)
    /\ display' = "alarm"
    /\ shiftReg' = Six("alarm")
    /\ pc' = "sa_release"
    /\ UNCHANGED <<clockVars, rtcVars, nEvents, alarmVars, heldVars, lightVars, alarm,
                   newDate, newTime, i,
                   intEnabled, ret, alK, delayed, buzzer, decimalPoint>>

\* Line 332: wait until neither alarm button decodes.
setAlarmRelease ==
    /\ pc = "sa_release" /\ MainRuns
    /\ \E stay \in {b1 = al1Button \/ b2 = al2Button : b1, b2 \in Polls} :
         pc' = IF stay THEN "sa_release" ELSE "sa_edit"
    /\ i' = 0
    /\ UNCHANGED <<clockVars, rtcVars, nEvents, mode, alarmVars, heldVars, lightVars, alarm,
                   prevMode, newAlarm, newDate, newTime,
                   intEnabled, ret, alK, delayed, buzzer, decimalPoint, display, shiftReg>>

\* toAdd of the edit loops for the button the poll decoded.
toAddOf(activeButton) ==
    IF activeButton = upButton THEN 1
    ELSE IF activeButton = downButton THEN -1
    ELSE 0

\* Lines 344-345: newAlarm[i] += toAdd; restrictAlarm(newAlarm).
nudgeAlarm(a, k, toAdd) == restrictAlarm([a EXCEPT ![k] = @ + toAdd])

\* What three polls in a row let the edit loop of setAlarm do: stay in the
\* while loop of the field (and add toAdd) or leave it.
SetAlarmPolls ==
    {[stay |-> b1 # al1Button /\ b2 # al2Button, toAdd |-> toAddOf(activeButton)] :
        b1 \in Polls, b2 \in Polls, activeButton \in Polls}

\* Lines 334-354: one evaluation of the while condition of field i, and
\* either one pass of its body or the step to the next field.
setAlarmEdit ==
    /\ pc = "sa_edit" /\ MainRuns
    /\ \E p \in SetAlarmPolls :
         IF p.stay
         THEN /\ p.toAdd # 0 => nEvents < MaxEvents
              /\ newAlarm' = nudgeAlarm(newAlarm, i, p.toAdd)
              /\ nEvents' = IF p.toAdd # 0 THEN nEvents + 1 ELSE nEvents
              /\ display' = "edit"
              /\ shiftReg' = Six("edit")
              /\ UNCHANGED <<i, pc>>
         ELSE /\ i' = i + 1
              /\ pc' = IF i + 1 < 2 THEN "sa_edit" ELSE "sa_commit"
              /\ UNCHANGED <<newAlarm, nEvents, display, shiftReg>>
    /\ UNCHANGED <<clockVars, rtcVars, mode, alarmVars, heldVars, lightVars, alarm,
                   prevMode, newDate, newTime,
                   intEnabled, ret, alK, delayed, buzzer, decimalPoint>>

\* Lines 356-365 of setAlarm.
setAlarmCommit ==
    /\ pc = "sa_commit" /\ MainRuns
    /\ alarmSettings' = SetEnabled(SetAlTime(alarmSettings, alarm, newAlarm), alarm, TRUE)
    /\ al1Light' = IF alarm = 1 THEN HIGH ELSE al1Light
    /\ al2Light' = IF alarm = 1 THEN al2Light ELSE HIGH
    /\ eeprom' = saveAlarmSettings(eeprom, alarmSettings')
    /\ pc' = "sa_exit"
    /\ UNCHANGED <<clockVars, rtcVars, nEvents, mode, flowVars, heldVars, lightVars,
                   intEnabled, ret, alK, delayed, buzzer, decimalPoint, display, shiftReg>>

\* Lines 366-367 of setAlarm.
setAlarmExit ==
    /\ pc = "sa_exit" /\ MainRuns
    /\ display' = "time"
    /\ shiftReg' = Six("time")
    /\ mode' = RestoreMode(prevMode)
    /\ pc' = ReturnPc
    /\ FlowLocalsDead
    /\ UNCHANGED <<clockVars, rtcVars, nEvents, alarmVars, heldVars, lightVars,
                   intEnabled, ret, alK, delayed, buzzer, decimalPoint>>

(***************************************************************************)
(* disableInterrupts, enableInterrupts, changeDateTime                     *)
(***************************************************************************)
\* Mutant: the flow leaves interrupt 0 attached.
disableInterruptsNot == TRUE

\* intEnabled after disableInterrupts(): detachInterrupt(0).
disableInterrupts == FALSE

\* Mutant: the flow returns without attaching interrupt 0 again.
enableInterruptsNot == FALSE

\* intEnabled after enableInterrupts(): attachInterrupt(0, updateTime, FALLING).
enableInterrupts == TRUE

\* Lines 387-399 of changeDateTime.
changeDateTimeEntry ==
    /\ pc = "cdt_entry" /\ MainRuns
    /\ intEnabled' = disableInterrupts
    /\ newDate' = date
    /\ newTime' = time
    /\ prevMode' = mode
    /\ mode' = MODE_SET
    /\ decimalPoint' = HIGH
    /\ display' = "edit"
    /\ shiftReg' = Six("edit")
    /\ pc' = "cdt_release"
    /\ UNCHANGED <<clockVars, rtcVars, nEvents, alarmVars, heldVars, lightVars, alarm,
                   newAlarm, i, ret, alK, delayed, buzzer>>

\* Line 401: wait until the set button no longer decodes.
changeDateTimeRelease ==
    /\ pc = "cdt_release" /\ MainRuns
    /\ \E stay \in {b = setButton : b \in Polls} :
         pc' = IF stay THEN "cdt_release" ELSE "cdt_edit"
    /\ i' = 0
    /\ UNCHANGED <<clockVars, rtcVars, nEvents, mode, alarmVars, heldVars, lightVars, alarm,
                   prevMode, newAlarm, newDate, newTime,
                   intEnabled, ret, alK, delayed, buzzer, decimalPoint, display, shiftReg>>

\* Lines 417-418: newDate[i] += toAdd; restrictDate(newDate).
nudgeDate(d, k, toAdd) == restrictDate([d EXCEPT ![k] = @ + toAdd])

\* Lines 427-428: newTime[i - 3] += toAdd; restrictTime(newTime).
nudgeTime(t, k, toAdd) == restrictTime([t EXCEPT ![k] = @ + toAdd])

\* What two polls in a row let the edit loop of changeDateTime do.
ChangeDateTimePolls ==
    {[stay |-> b # setButton, toAdd |-> toAddOf(activeButton)] :
        b \in Polls, activeButton \in Polls}

\* Lines 403-443: one evaluation of the while condition of field i, and
\* either one pass of its body or the step to the next field.
changeDateTimeEdit ==
    /\ pc = "cdt_edit" /\ MainRuns
    /\ \E p \in ChangeDateTimePolls :
         IF p.stay
         THEN /\ p.toAdd # 0 => nEvents < MaxEvents
              /\ newDate' = IF i < 3 THEN nudgeDate(newDate, i, p.toAdd) ELSE newDate
              /\ newTime' = IF i < 3 THEN newTime ELSE nudgeTime(newTime, i - 3, p.toAdd)
              /\ decimalPoint' = IF i < 3 THEN HIGH ELSE LOW
              /\ nEvents' = IF p.toAdd # 0 THEN nEvents + 1 ELSE nEvents
              /\ display' = "edit"
              /\ shiftReg' = Six("edit")
              /\ UNCHANGED <<i, pc>>
         ELSE /\ i' = i + 1
              /\ pc' = IF i + 1 < 6 THEN "cdt_edit" ELSE "cdt_commit"
              /\ UNCHANGED <<newDate, newTime, nEvents, display, shiftReg, decimalPoint>>
    /\ UNCHANGED <<clockVars, rtcVars, mode, alarmVars, heldVars, lightVars, alarm,
                   prevMode, newAlarm, intEnabled, ret, alK, delayed, buzzer>>

\* Lines 445-447 of changeDateTime.  The six fields are reached through six
\* waits of buttonDebounce (line 442, 6 * 200 ms), longer than the period of
\* the 1 Hz square wave RTC_init selects (line 624), so at least one edge has
\* arrived since the interrupt was detached: intFlag is set here.
changeDateTimeCommit ==
    /\ pc = "cdt_commit" /\ MainRuns
    /\ intFlag
    /\ rtc' = setDateTime(rtc, newDate, newTime)
    /\ pc' = "cdt_exit"
    /\ UNCHANGED <<clockVars, intFlag, nEvents, mode, alarmVars, flowVars, heldVars,
                   lightVars, intEnabled, ret, alK, delayed, buzzer, decimalPoint,
                   display, shiftReg>>

\* Lines 449-451 of changeDateTime.
changeDateTimeExit ==
    /\ pc = "cdt_exit" /\ MainRuns
    /\ mode' = RestoreMode(prevMode)
    /\ intEnabled' = enableInterrupts
    /\ pc' = ReturnPc
    /\ FlowLocalsDead
    /\ UNCHANGED <<clockVars, rtcVars, nEvents, alarmVars, heldVars, lightVars,
                   ret, alK, delayed, buzzer, decimalPoint, display, shiftReg>>

(***************************************************************************)
(* handleAlarms                                                            *)
(***************************************************************************)
\* The conjuncts of the condition of lines 214 and 222, in the order the
\* && evaluates them; the handler can run between any two of them.
AlarmConjunct(step, s, k, t) ==
    IF step = "al_chk_en" THEN AlEnabled(s, k)
    ELSE IF step = "al_chk_h" THEN t[hours] = AlTime(s, k)[hours]
    ELSE IF step = "al_chk_m" THEN t[minutes] = AlTime(s, k)[minutes]
    ELSE t[seconds] = 0

AlarmCheckSteps == {"al_chk_en", "al_chk_h", "al_chk_m", "al_chk_s"}

NextCheckStep(step) ==
    IF step = "al_chk_en" THEN "al_chk_h"
    ELSE IF step = "al_chk_h" THEN "al_chk_m"
    ELSE IF step = "al_chk_m" THEN "al_chk_s"
    ELSE "al_while"

\* One conjunct of the trigger condition of alarm alK.
handleAlarmsCheck ==
    /\ pc \in AlarmCheckSteps /\ MainRuns
    /\ IF AlarmConjunct(pc, alarmSettings, alK, time)
       THEN /\ pc' = NextCheckStep(pc)
            /\ alK' = alK
       ELSE /\ pc' = IF alK = 1 THEN "al_chk_en" ELSE "al_end"
            /\ alK' = IF alK = 1 THEN 2 ELSE alK
    /\ UNCHANGED <<clockVars, rtcVars, nEvents, mode, alarmVars, flowVars, heldVars, lightVars,
                   intEnabled, ret, delayed, buzzer, decimalPoint, display, shiftReg>>

\* Lines 215-218 and 223-226: the test of the buzzer loop, and its body up
\* to the call of handleButtons.
handleAlarmsWhile ==
    /\ pc = "al_while" /\ MainRuns
    /\ IF AlEnabled(alarmSettings, alK)
       THEN /\ buzzer' \in {LOW, HIGH}
            /\ ret' = "buzz"
            /\ pc' = "hb_poll"
            /\ delayed' = delayed
       ELSE /\ buzzer' = buzzer
            /\ ret' = "loop"
            /\ pc' = "al_delay"
            /\ delayed' = FALSE
    /\ UNCHANGED <<clockVars, rtcVars, nEvents, mode, alarmVars, flowVars, heldVars, lightVars,
                   intEnabled, alK, decimalPoint, display, shiftReg>>

\* Lines 219 and 227: delay(1000) spans a period of the 1 Hz square wave.
handleAlarmsDelay ==
    /\ pc = "al_delay" /\ MainRuns
    /\ delayed
    /\ pc' = IF alK = 1 THEN "al_chk_en" ELSE "al_end"
    /\ alK' = IF alK = 1 THEN 2 ELSE alK
    /\ UNCHANGED <<clockVars, rtcVars, nEvents, mode, alarmVars, flowVars, heldVars, lightVars,
                   intEnabled, ret, delayed, buzzer, decimalPoint, display, shiftReg>>

\* Line 230.
handleAlarmsEnd ==
    /\ pc = "al_end" /\ MainRuns
    /\ buzzer' = LOW
    /\ alK' = 1
    /\ pc' = "clean"
    /\ UNCHANGED <<clockVars, rtcVars, nEvents, mode, alarmVars, flowVars, heldVars, lightVars,
                   intEnabled, ret, delayed, decimalPoint, display, shiftReg>>

(***************************************************************************)
(* The firmware.                                                           *)
(***************************************************************************)
Next ==
    \/ RtcSecond
    \/ updateTime
    \/ setup
    \/ loopBrightness
    \/ handleButtons
    \/ modeDebounce
    \/ handleButtonsHeld
    \/ disableAlarm
    \/ enableAlarmEntry
    \/ enableAlarmShow
    \/ enableAlarmDelay
    \/ enableAlarmExit
    \/ setAlarmEntry
    \/ setAlarmRelease
    \/ setAlarmEdit
    \/ setAlarmCommit
    \/ setAlarmExit
    \/ changeDateTimeEntry
    \/ changeDateTimeRelease
    \/ changeDateTimeEdit
    \/ changeDateTimeCommit
    \/ changeDateTimeExit
    \/ handleAlarmsCheck
    \/ handleAlarmsWhile
    \/ handleAlarmsDelay
    \/ handleAlarmsEnd
    \/ loopClean
    \/ cycleDigitsShift
    \/ cycleDigitsStrobe

Spec == Init /\ [][Next]_vars

(***************************************************************************)
(* The routines on their own.  Three specifications run routines of the    *)
(* firmware on inputs drawn from bounded sets, with the rest of the        *)
(* firmware at its initialisers.                                           *)
(***************************************************************************)
\* The variables the three specifications leave alone.
restVars == <<prevTime, mode, cathodeClean, intEnabled, intFlag, ret, alK, delayed,
              alarm, prevMode, alarmSettings, buzzer, al1Light, al2Light,
              decimalPoint, display, shiftReg, render>>

AtRest ==
    /\ prevTime = Arr3(0, 0, 0)
    /\ mode = MODE_DISPLAY_TIME
    /\ cathodeClean = FALSE
    /\ intEnabled = FALSE
    /\ intFlag = FALSE
    /\ ret = "loop"
    /\ alK = 1
    /\ delayed = FALSE
    /\ alarm = 1
    /\ prevMode = MODE_DISPLAY_TIME
    /\ alarmSettings = Block(FALSE, FALSE, Arr2(0, 0), Arr2(0, 0))
    /\ buzzer = LOW
    /\ al1Light = LOW
    /\ al2Light = LOW
    /\ decimalPoint = LOW
    /\ display = "blank"
    /\ shiftReg = Six(display)
    /\ render = "none"

\* Lowest and highest value of each field (lines 371-372, 455-457, 466-468).
DateLo == Arr3(1, 1, 0)
DateHi == Arr3(31, 12, 99)
TimeLo == Arr3(0, 0, 0)
TimeHi == Arr3(23, 59, 59)
AlarmLo == Arr2(0, 0)
AlarmHi == Arr2(23, 59)

MidDate == Arr3(15, 6, 50)
MidTime == Arr3(12, 30, 30)
MidAlarm == Arr2(12, 30)

\* Arrays with one field anywhere from lo - excess to hi + excess and the
\* others mid-range, and the arrays with every field excess past an end.
OneFieldVaried(mid, lo, hi, excess) ==
    UNION {{[mid EXCEPT ![k] = v] : v \in (lo[k] - excess)..(hi[k] + excess)} :
              k \in DOMAIN mid}
    \cup {[k \in DOMAIN mid |-> hi[k] + excess], [k \in DOMAIN mid |-> lo[k] - excess]}

(***************************************************************************)
(* restrictDate, restrictTime and restrictAlarm on raw arrays, then the    *)
(* nudge of the edit loops on the restricted ones.                         *)
(***************************************************************************)
InitRestrict ==
    /\ AtRest
    /\ \/ /\ pc = "rs_dt"
          /\ \/ date \in OneFieldVaried(MidDate, DateLo, DateHi, MaxExcess) /\ time = MidTime
             \/ date = MidDate /\ time \in OneFieldVaried(MidTime, TimeLo, TimeHi, MaxExcess)
          /\ eeprom = Block(FALSE, FALSE, MidAlarm, MidAlarm)
          /\ i \in 0..5
       \/ /\ pc = "rs_al"
          /\ date = MidDate /\ time = MidTime
          /\ eeprom \in {Block(FALSE, FALSE, a, MidAlarm) :
                            a \in OneFieldVaried(MidAlarm, AlarmLo, AlarmHi, MaxExcess)}
          /\ i \in 0..1
    /\ newDate = Arr3(1, 1, 0)
    /\ newTime = Arr3(0, 0, 0)
    /\ newAlarm = Arr2(0, 0)
    /\ button = noButton
    /\ buttonHeldFor = 0
    /\ polled = noButton
    /\ nEvents = 0
    /\ rtc = RegsOf(MidDate, MidTime)
    /\ lastBrightness = minBrightness
    /\ ldr = ldrDark

\* restrictDate and restrictTime applied to the raw date and time.
restrictDateTimeStep ==
    /\ pc = "rs_dt"
    /\ newDate' = restrictDate(date)
    /\ newTime' = restrictTime(time)
    /\ pc' = "rs_dt_edit"
    /\ UNCHANGED <<restVars, time, date, eeprom, newAlarm, i, heldVars, nEvents, rtc,
                   lastBrightness, ldr>>

\* restrictAlarm applied to the raw set-point of alarm 1.
restrictAlarmStep ==
    /\ pc = "rs_al"
    /\ newAlarm' = restrictAlarm(eeprom.al1Time)
    /\ pc' = "rs_al_edit"
    /\ UNCHANGED <<restVars, time, date, eeprom, newDate, newTime, i, heldVars, nEvents,
                   rtc, lastBrightness, ldr>>

\* Lines 409-428: the up or the down button nudges field i of the date/time.
nudgeDateTimeStep ==
    /\ pc = "rs_dt_edit"
    /\ nEvents < MaxEvents
    /\ \E activeButton \in {upButton, downButton} :
         /\ button' = activeButton
         /\ UNCHANGED <<buttonHeldFor, polled>>
         /\ newDate' = IF i < 3 THEN nudgeDate(newDate, i, toAddOf(activeButton))
                       ELSE newDate
         /\ newTime' = IF i < 3 THEN newTime
                       ELSE nudgeTime(newTime, i - 3, toAddOf(activeButton))
    /\ nEvents' = nEvents + 1
    /\ UNCHANGED <<restVars, time, date, eeprom, newAlarm, i, pc, rtc,
                   lastBrightness, ldr>>

\* Lines 338-345: the up or the down button nudges field i of the set-point.
nudgeAlarmStep ==
    /\ pc = "rs_al_edit"
    /\ nEvents < MaxEvents
    /\ \E activeButton \in {upButton, downButton} :
         /\ button' = activeButton
         /\ UNCHANGED <<buttonHeldFor, polled>>
         /\ newAlarm' = nudgeAlarm(newAlarm, i, toAddOf(activeButton))
    /\ nEvents' = nEvents + 1
    /\ UNCHANGED <<restVars, time, date, eeprom, newDate, newTime, i, pc, rtc,
                   lastBrightness, ldr>>

NextRestrict ==
    \/ restrictDateTimeStep
    \/ restrictAlarmStep
    \/ nudgeDateTimeStep
    \/ nudgeAlarmStep

SpecRestrict == InitRestrict /\ [][NextRestrict]_vars

(***************************************************************************)
(* setDateTime, then readDateTime on the registers it wrote.               *)
(***************************************************************************)
InitRtc ==
    /\ AtRest
    /\ pc = "codec_in"
    /\ \/ newDate \in OneFieldVaried(MidDate, DateLo, DateHi, 0) /\ newTime = MidTime
       \/ newDate = MidDate /\ newTime \in OneFieldVaried(MidTime, TimeLo, TimeHi, 0)
    /\ rtc \in {RegsOf(d, t) : d \in InitDates, t \in InitTimes}
    /\ time = Arr3(0, 0, 0)
    /\ date = Arr3(1, 1, 0)
    /\ eeprom = Block(FALSE, FALSE, MidAlarm, MidAlarm)
    /\ newAlarm = Arr2(0, 0)
    /\ i = 0
    /\ button = noButton
    /\ buttonHeldFor = 0
    /\ polled = noButton
    /\ nEvents = 0
    /\ lastBrightness = minBrightness
    /\ ldr = ldrDark

\* Line 445: setDateTime(newDate, newTime).
setDateTimeStep ==
    /\ pc = "codec_in"
    /\ rtc' = setDateTime(rtc, newDate, newTime)
    /\ pc' = "codec_written"
    /\ UNCHANGED <<restVars, time, date, eeprom, newAlarm, newDate, newTime, i, heldVars,
                   nEvents, lastBrightness, ldr>>

\* Line 147: readDateTime().
readDateTimeStep ==
    /\ pc = "codec_written"
    /\ time' = readTime(rtc)
    /\ date' = readDate(rtc)
    /\ pc' = "codec_done"
    /\ UNCHANGED <<restVars, rtc, eeprom, newAlarm, newDate, newTime, i, heldVars,
                   nEvents, lastBrightness, ldr>>

NextRtc ==
    \/ setDateTimeStep
    \/ readDateTimeStep

SpecRtc == InitRtc /\ [][NextRtc]_vars

(***************************************************************************)
(* updateBrightness under a light level that changes between calls.        *)
(***************************************************************************)
\* Levels of the sensor line: the ends of the converter's scale, and round
\* each point where the mapped percent changes.
LdrLevels ==
    {0, idleLevel} \cup
    UNION {{ldrDark + 15 * k - 1, ldrDark + 15 * k, ldrDark + 15 * k + 1} :
              k \in 0..(maxBrightness - minBrightness)}

InitLight ==
    /\ AtRest
    /\ pc = "loop"
    /\ lastBrightness = minBrightness
    /\ ldr \in LdrLevels
    /\ time = Arr3(0, 0, 0)
    /\ date = Arr3(1, 1, 0)
    /\ rtc = RegsOf(MidDate, MidTime)
    /\ eeprom = Block(FALSE, FALSE, MidAlarm, MidAlarm)
    /\ newAlarm = Arr2(0, 0)
    /\ newDate = Arr3(1, 1, 0)
    /\ newTime = Arr3(0, 0, 0)
    /\ i = 0
    /\ button = noButton
    /\ buttonHeldFor = 0
    /\ polled = noButton
    /\ nEvents = 0

\* The light on the sensor changes.
lightChange ==
    /\ ldr' \in LdrLevels \ {ldr}
    /\ UNCHANGED <<restVars, lastBrightness, pc, time, date, rtc, eeprom, newAlarm,
                   newDate, newTime, i, heldVars, nEvents>>

\* Line 185: one call of updateBrightness.
updateBrightnessStep ==
    /\ updateBrightness
    /\ UNCHANGED <<restVars, pc, time, date, rtc, eeprom, newAlarm, newDate, newTime,
                   i, heldVars, nEvents>>

NextLight ==
    \/ lightChange
    \/ updateBrightnessStep

SpecLight == InitLight /\ [][NextLight]_vars

(***************************************************************************)
(* The handler on its own: ticks of the RTC and runs of updateTime from    *)
(* every second of two minutes, with the main flow held at the top of      *)
(* loop().                                                                 *)
(***************************************************************************)
\* Times of the last sync: every second of a minute that is not a multiple
\* of 20 and of one that is.
TickTimes == {Arr3(7, m, s) : m \in {19, 20}, s \in 0..59}

InitTick ==
    /\ pc = "loop"
    /\ mode \in {MODE_DISPLAY_TIME, MODE_DISPLAY_DATETIME}
    /\ time \in TickTimes
    /\ date \in InitDates
    /\ prevTime = time
    /\ rtc = RegsOf(date, time)
    /\ cathodeClean = CleanWindow(time, mode)
    /\ render = IF cathodeClean THEN "none" ELSE updateDisplayKind(mode, time)
    /\ display = Latched(render, "clean")
    /\ shiftReg = Six(display)
    /\ decimalPoint = IF cathodeClean THEN LOW ELSE updateDisplayPoint(mode, time, LOW)
    /\ intEnabled = TRUE
    /\ intFlag = FALSE
    /\ nEvents = 0
    /\ alarmSettings = Block(FALSE, FALSE, MidAlarm, MidAlarm)
    /\ eeprom = alarmSettings
    /\ lastBrightness = minBrightness
    /\ ldr = ldrDark
    /\ ret = "loop"
    /\ alK = 1
    /\ button = noButton
    /\ buttonHeldFor = 0
    /\ polled = noButton
    /\ delayed = FALSE
    /\ alarm = 1
    /\ prevMode = MODE_DISPLAY_TIME
    /\ newAlarm = Arr2(0, 0)
    /\ newDate = Arr3(1, 1, 0)
    /\ newTime = Arr3(0, 0, 0)
    /\ i = 0
    /\ buzzer = LOW
    /\ al1Light = LOW
    /\ al2Light = LOW

NextTick ==
    \/ RtcSecond
    \/ updateTime

SpecTick == InitTick /\ [][NextTick]_vars

(***************************************************************************)
(* The minute of an alarm.  The RTC has just counted the second that       *)
(* brings an enabled alarm's hh:mm:00, with the main flow anywhere in a    *)
(* pass of loop() that no button interrupts.  A pass lasts some tens of    *)
(* milliseconds, so a further second is counted only while the main flow   *)
(* waits in the cleaning sub-loop of lines 191-194.                        *)
(***************************************************************************)
\* Minutes of the set-point: a multiple of 20 and its successor.
AlarmMinutes == {20, 21}

\* The second before 07:m:00.
SecondBefore(m) == Arr3(7, m - 1, 59)

\* Where a pass of loop() can be when the second is counted, with the alarm
\* handleAlarms is on: of the enabled alarm k the conjuncts up to the
\* minutes (the minutes of the second before do not match), of the other
\* alarm the first conjunct.
PassPoints(k) ==
    {<<"loop", 1>>, <<"hb_poll", 1>>, <<"al_end", 2>>, <<"clean", 1>>}
    \cup {<<"al_chk_en", 1>>, <<"al_chk_en", 2>>}
    \cup {<<"al_chk_h", k>>, <<"al_chk_m", k>>}

InitMinute ==
    /\ \E k \in {1, 2} :
         /\ \E p \in PassPoints(k) : pc = p[1] /\ alK = p[2]
         /\ \E m \in AlarmMinutes :
              /\ alarmSettings = Block(k = 1, k = 2, Arr2(7, m), Arr2(7, m))
              /\ time = SecondBefore(m)
              /\ rtc = RtcAdvance(RegsOf(Arr3(31, 12, 99), time))
    /\ date = Arr3(31, 12, 99)
    /\ prevTime = time
    /\ mode \in {MODE_DISPLAY_TIME, MODE_DISPLAY_DATETIME}
    /\ cathodeClean = FALSE
    /\ render = updateDisplayKind(mode, time)
    /\ display = Latched(render, "blank")
    /\ shiftReg = Six(display)
    /\ decimalPoint = updateDisplayPoint(mode, time, LOW)
    /\ intEnabled = TRUE
    /\ intFlag = TRUE
    /\ nEvents = 0
    /\ delayed = TRUE
    /\ eeprom = alarmSettings
    /\ al1Light = alarmSettings.al1Enabled
    /\ al2Light = alarmSettings.al2Enabled
    /\ lastBrightness = minBrightness
    /\ ldr = ldrDark
    /\ ret = "loop"
    /\ button = noButton
    /\ buttonHeldFor = 0
    /\ polled = noButton
    /\ alarm = 1
    /\ prevMode = MODE_DISPLAY_TIME
    /\ newAlarm = Arr2(0, 0)
    /\ newDate = Arr3(1, 1, 0)
    /\ newTime = Arr3(0, 0, 0)
    /\ i = 0
    /\ buzzer = LOW

\* A second counted while the main flow waits in the cleaning sub-loop.
RtcSecondInClean == RtcSecond /\ pc \in CleanPcs /\ cathodeClean

\* handleButtons on a poll that decodes no button.
handleButtonsIdle == handleButtons /\ pc' = ReturnPc /\ nEvents' = nEvents

NextMinute ==
    \/ RtcSecondInClean
    \/ updateTime
    \/ loopBrightness
    \/ handleButtonsIdle
    \/ handleAlarmsCheck
    \/ handleAlarmsEnd
    \/ loopClean
    \/ cycleDigitsShift
    \/ cycleDigitsStrobe

SpecMinute == InitMinute /\ [][NextMinute]_vars

\* The same run under the scheduling of the hardware: the RTC keeps counting,
\* a pending tick is served as soon as interrupt 0 is attached, and the main
\* flow goes on whenever no tick is pending.
SpecMinuteFair ==
    /\ InitMinute /\ [][NextMinute]_vars
    /\ WF_vars(RtcSecondInClean)
    /\ WF_vars(updateTime)
    /\ WF_vars(loopClean)
    /\ WF_vars(cycleDigitsShift)
    /\ WF_vars(cycleDigitsStrobe)

(***************************************************************************)
(* buttonIsHeld poll by poll: the loop of lines 271-277 after the poll of   *)
(* handleButtons (line 234) has decoded a button that can be held, each     *)
(* further poll decoding anything the two button lines can show, and then   *)
(* the branch handleButtons takes on the answer.                            *)
(***************************************************************************)
\* The buttons handleButtons passes to buttonIsHeld (lines 236, 247, 257).
HeldButtons == {setButton, al1Button, al2Button}

InitHeld ==
    /\ pc = "bih_poll"
    /\ button \in HeldButtons
    /\ buttonHeldFor = 0
    /\ polled = button
    /\ \E e1, e2 \in BOOLEAN :
         /\ alarmSettings = Block(e1, e2, MidAlarm, MidAlarm)
         /\ al1Light = e1
         /\ al2Light = e2
    /\ eeprom = alarmSettings
    /\ mode \in {MODE_DISPLAY_TIME, MODE_DISPLAY_DATETIME}
    /\ time = MidTime
    /\ date = MidDate
    /\ prevTime = time
    /\ rtc = RegsOf(date, time)
    /\ cathodeClean = FALSE
    /\ render = updateDisplayKind(mode, time)
    /\ display = Latched(render, "blank")
    /\ shiftReg = Six(display)
    /\ decimalPoint = updateDisplayPoint(mode, time, LOW)
    /\ intEnabled = TRUE
    /\ intFlag = FALSE
    /\ nEvents = 0
    /\ lastBrightness = minBrightness
    /\ ldr = ldrDark
    /\ ret = "loop"
    /\ alK = 1
    /\ delayed = FALSE
    /\ alarm = 1
    /\ prevMode = MODE_DISPLAY_TIME
    /\ newAlarm = Arr2(0, 0)
    /\ newDate = Arr3(1, 1, 0)
    /\ newTime = Arr3(0, 0, 0)
    /\ i = 0
    /\ buzzer = LOW

\* One pass of the while of line 271: the poll, and if it decodes the button,
\* lines 273-276.
buttonIsHeldPoll ==
    /\ pc = "bih_poll"
    /\ \E p \in Polls :
         /\ polled' = p
         /\ IF p # button
            THEN /\ pc' = "bih_false"
                 /\ buttonHeldFor' = buttonHeldFor
            ELSE /\ buttonHeldFor' = buttonHeldFor + heldStep
                 /\ pc' = IF buttonIsHeldFrom(button, <<p>>, buttonHeldFor)
                           THEN "bih_true" ELSE "bih_poll"
    /\ UNCHANGED <<clockVars, rtcVars, nEvents, mode, alarmVars, flowVars, lightVars,
                   button, intEnabled, ret, alK, delayed, buzzer, decimalPoint, display,
                   shiftReg>>

\* Lines 236-238, 247-254, 257-264: the branch on the answer of buttonIsHeld.
handleButtonsAfterHeld ==
    /\ pc \in {"bih_true", "bih_false"}
    /\ pc' = AfterHeld(button, pc = "bih_true", alarmSettings)
    /\ alarm' = IF button # setButton
                THEN (IF button = al1Button THEN 1 ELSE 2)
                ELSE alarm
    /\ UNCHANGED <<clockVars, rtcVars, nEvents, mode, alarmVars, lightVars, heldVars,
                   prevMode, newAlarm, newDate, newTime, i,
                   intEnabled, ret, alK, delayed, buzzer, decimalPoint, display, shiftReg>>

NextHeld ==
    \/ buttonIsHeldPoll
    \/ handleButtonsAfterHeld

SpecHeld == InitHeld /\ [][NextHeld]_vars

(***************************************************************************)
(* Properties.                                                             *)
(***************************************************************************)
\* The handler ran in this step: only updateTime clears the pending edge.
HandlerStep == intFlag /\ ~intFlag'

\* The RTC counted a second in this step.
RtcSecondStep == rtc' = RtcAdvance(rtc)

\* The time and date the RTC holds.
RtcTime == Arr3(UnBcd(rtc[2]), UnBcd(rtc[1]), UnBcd(rtc[0]))
RtcDate == Arr3(UnBcd(rtc[4]), UnBcd(rtc[5]), UnBcd(rtc[6]))

\* The main flow is inside a configuration flow, past its first statements.
EnableAlarmPcs == {"ea_show", "ea_delay", "ea_exit"}
SetAlarmPcs == {"sa_release", "sa_edit", "sa_commit", "sa_exit"}
ChangeDateTimePcs == {"cdt_release", "cdt_edit", "cdt_commit", "cdt_exit"}
FlowPcs == EnableAlarmPcs \cup SetAlarmPcs \cup ChangeDateTimePcs

\* C1: handleAlarms enters the buzzer phase of alarm k only if, at the
\* check, alarm k is enabled, time[hours] and time[minutes] equal its
\* set-point and time[seconds] is 0.
C1_TriggerOnlyOnMatch ==
    [][(pc = "al_chk_s" /\ pc' = "al_while") =>
          /\ AlEnabled(alarmSettings, alK)
          /\ time[hours] = AlTime(alarmSettings, alK)[hours]
          /\ time[minutes] = AlTime(alarmSettings, alK)[minutes]
          /\ time[seconds] = 0]_vars

\* C2: a configuration flow holds mode at Set from its first statements to
\* its last, remembers the mode it was entered in, and leaves in that mode;
\* outside the flows mode is DisplayTime or DisplayDateTime.
C2_FlowsForceAndRestoreMode ==
    [][/\ pc' \in FlowPcs => mode' = MODE_SET
       /\ pc' \notin FlowPcs => mode' \in {MODE_DISPLAY_TIME, MODE_DISPLAY_DATETIME}
       /\ (pc \notin FlowPcs /\ pc' \in FlowPcs) => prevMode' = mode
       /\ (pc \in FlowPcs /\ pc' \in FlowPcs) => prevMode' = prevMode
       /\ (pc \in FlowPcs /\ pc' \notin FlowPcs) => mode' = prevMode]_vars

\* C2 witness: a flow entered in DisplayDateTime is about to leave.
C2_Witness ==
    pc \in {"ea_exit", "sa_exit", "cdt_exit"} /\ prevMode = MODE_DISPLAY_DATETIME
    /\ mode = MODE_SET

\* handleButtons acted on the mode button in this step.
ModeButtonStep == pc = "hb_poll" /\ pc' = "hb_debounce"

\* C3: the mode button swaps DisplayTime and DisplayDateTime, does nothing
\* in Set, and touches neither the alarm settings nor time nor date; nothing
\* else moves mode between DisplayTime and DisplayDateTime.
C3_ModeButtonToggles ==
    [][/\ ModeButtonStep =>
            /\ mode = MODE_DISPLAY_TIME => mode' = MODE_DISPLAY_DATETIME
            /\ mode = MODE_DISPLAY_DATETIME => mode' = MODE_DISPLAY_TIME
            /\ mode = MODE_SET => mode' = MODE_SET
            /\ UNCHANGED <<alarmSettings, eeprom, time, date>>
       /\ ToggleMode(MODE_SET) = MODE_SET
       /\ ({mode, mode'} = {MODE_DISPLAY_TIME, MODE_DISPLAY_DATETIME}) => ModeButtonStep
      ]_vars

\* C3 witness: the mode button has just taken the clock to DisplayDateTime.
C3_Witness == pc = "hb_debounce" /\ mode = MODE_DISPLAY_DATETIME

\* The cleaning condition on the time the handler has just read.
CleanCondition ==
    time'[minutes] % 20 = 0 /\ time'[seconds] \in {0, 1, 2} /\ mode' # MODE_SET

\* C4 as stated: after every run of the handler the cleaning flag equals the
\* cleaning condition on the time just read, and the handler has rendered
\* exactly when the flag is false.
C4_RendersIffNotCleaning ==
    [][HandlerStep =>
          /\ time' = RtcTime
          /\ cathodeClean' = CleanCondition
          /\ (render' # "none") = ~cathodeClean']_vars

\* C4 amended: as above, but the handler has rendered exactly when the flag
\* is false and mode is not Set.
C4_RendersIffNotCleaningNorSet ==
    [][HandlerStep =>
          /\ time' = RtcTime
          /\ cathodeClean' = CleanCondition
          /\ (render' # "none") = (~cathodeClean' /\ mode' # MODE_SET)]_vars

\* C4 witness: second 3 of a minute that is a multiple of 20, flag false,
\* display rendered.
C4_Witness ==
    /\ time[minutes] % 20 = 0 /\ time[seconds] = 3 /\ time = RtcTime
    /\ ~cathodeClean /\ render # "none" /\ mode # MODE_SET

\* C5: changeDateTime runs with interrupt 0 detached from its first
\* statement to its last, so the handler never runs inside it; the RTC is
\* written once, after the sixth field has been passed, the fields being
\* edited in the order day, month, year, hour, minute, second; and the
\* interrupt is attached whenever the main flow is outside the flow.
C5_EditRunsWithInterruptOff ==
    [][/\ intEnabled' = (pc' \notin ChangeDateTimePcs /\ pc' # "setup")
       /\ HandlerStep => pc \notin ChangeDateTimePcs
       /\ rtc' # rtc => \/ RtcSecondStep /\ pc' = pc
                        \/ pc = "cdt_commit" /\ pc' = "cdt_exit"
       /\ (pc = "cdt_commit" /\ pc' # pc) => pc' = "cdt_exit"
       /\ (pc' = "cdt_exit" /\ pc # pc') =>
              pc = "cdt_commit" /\ RtcTime' = newTime /\ RtcDate' = newDate
       /\ (pc' = "cdt_commit" /\ pc # pc') => pc = "cdt_edit" /\ i = 5 /\ i' = 6
       /\ (pc = "cdt_edit" /\ pc' = "cdt_edit") =>
              /\ i' \in {i, i + 1}
              /\ \A k \in 0..2 : newDate'[k] # newDate[k] => i = k
              /\ \A k \in 0..2 : newTime'[k] # newTime[k] => i = k + 3
      ]_vars

\* C5 witness: the edit has written the RTC and is about to re-attach the
\* interrupt, with a second counted meanwhile that the handler has not seen.
C5_Witness ==
    pc = "cdt_exit" /\ ~intEnabled /\ intFlag /\ RtcTime # time

\* The main flow is inside enableAlarm, disableAlarm or setAlarm.
AlarmFlowPcs == {"ea_entry", "da", "sa_entry"} \cup EnableAlarmPcs \cup SetAlarmPcs

\* C6 as stated: from the boot-time load on, whenever the main flow is
\* outside the alarm flows the EEPROM block equals the alarm settings in
\* memory.
C6_EepromEqualsMemory ==
    (pc # "setup" /\ pc \notin AlarmFlowPcs) => eeprom = alarmSettings

\* The set-point restrictAlarm makes of a stored one.
Restricted(t) ==
    Arr2(IF t[hours] > 23 THEN 0 ELSE IF t[hours] < 0 THEN 23 ELSE t[hours],
         IF t[minutes] > 59 THEN 0 ELSE IF t[minutes] < 0 THEN 59 ELSE t[minutes])

InRange(t) == t[hours] \in 0..23 /\ t[minutes] \in 0..59

\* C6 amended: whenever the main flow is outside the alarm flows, the
\* enabled flags in memory equal the stored ones and each set-point in memory
\* is the stored one passed through restrictAlarm, hence equal to it when
\* the stored one is in range; a save leaves the block equal to memory.
C6_MemoryIsRestrictedEeprom ==
    [][/\ (pc' # "setup" /\ pc' \notin AlarmFlowPcs) =>
            /\ alarmSettings'.al1Enabled = eeprom'.al1Enabled
            /\ alarmSettings'.al2Enabled = eeprom'.al2Enabled
            /\ alarmSettings'.al1Time = Restricted(eeprom'.al1Time)
            /\ alarmSettings'.al2Time = Restricted(eeprom'.al2Time)
            /\ (InRange(eeprom'.al1Time) /\ InRange(eeprom'.al2Time))
                   => eeprom' = alarmSettings'
       /\ eeprom' # eeprom => eeprom' = alarmSettings'
      ]_vars

\* C6 witness: a block that held a corrupted set-point for alarm 1 has been
\* rewritten by a flow that enabled alarm 1.
C6_Witness ==
    /\ pc \notin AlarmFlowPcs /\ pc # "setup"
    /\ eeprom.al1Enabled /\ eeprom.al1Time = Arr2(0, 0) /\ eeprom = alarmSettings

\* C7: after the boot-time load both set-points in memory are in range.
C7_AlarmTimesInRange ==
    pc # "setup" =>
        /\ alarmSettings.al1Time[hours] \in 0..23
        /\ alarmSettings.al1Time[minutes] \in 0..59
        /\ alarmSettings.al2Time[hours] \in 0..23
        /\ alarmSettings.al2Time[minutes] \in 0..59

\* C7 witness: a set-point loaded from a corrupted block (24:60 -> 00:00)
\* has been nudged down across the lower end of the hours and committed.
C7_Witness ==
    /\ pc = "sa_exit" /\ alarm = 1
    /\ alarmSettings.al1Time = Arr2(23, 0) /\ eeprom.al2Time = Arr2(7, 20)

\* out is v wrapped into lo..hi: the far end for a value past an end.
WrapsTo(v, out, lo, hi) ==
    /\ v > hi => out = lo
    /\ v < lo => out = hi
    /\ v \in lo..hi => out = v

\* One step round the cycle lo..hi in the direction of the button.
CycStep(v, b, lo, hi) ==
    IF b = upButton THEN (IF v = hi THEN lo ELSE v + 1)
    ELSE (IF v = lo THEN hi ELSE v - 1)

\* C8: the three restrict routines send a value above a field's maximum to
\* its minimum, a value below the minimum to the maximum, and leave a value
\* in range alone; a +1/-1 nudge of a field in range moves that field one
\* step round its cycle, leaves the other fields alone and keeps all in range.
C8_RestrictWraps ==
    [][/\ (pc = "rs_dt" /\ pc' = "rs_dt_edit") =>
              /\ \A k \in 0..2 : WrapsTo(date[k], newDate'[k], DateLo[k], DateHi[k])
              /\ \A k \in 0..2 : WrapsTo(time[k], newTime'[k], TimeLo[k], TimeHi[k])
       /\ (pc = "rs_al" /\ pc' = "rs_al_edit") =>
              \A k \in 0..1 :
                  WrapsTo(eeprom.al1Time[k], newAlarm'[k], AlarmLo[k], AlarmHi[k])
       /\ (pc = "rs_dt_edit" /\ nEvents' # nEvents) =>
              /\ \A k \in 0..2 :
                    /\ newDate'[k] = IF i = k
                                     THEN CycStep(newDate[k], button', DateLo[k], DateHi[k])
                                     ELSE newDate[k]
                    /\ newTime'[k] = IF i = k + 3
                                     THEN CycStep(newTime[k], button', TimeLo[k], TimeHi[k])
                                     ELSE newTime[k]
                    /\ newDate'[k] \in DateLo[k]..DateHi[k]
                    /\ newTime'[k] \in TimeLo[k]..TimeHi[k]
       /\ (pc = "rs_al_edit" /\ nEvents' # nEvents) =>
              \A k \in 0..1 :
                  /\ newAlarm'[k] = IF i = k
                                    THEN CycStep(newAlarm[k], button', AlarmLo[k], AlarmHi[k])
                                    ELSE newAlarm[k]
                  /\ newAlarm'[k] \in AlarmLo[k]..AlarmHi[k]
      ]_vars

\* C8 witness: a raw day of 32 was wrapped to 1 and a down nudge took the
\* day from 1 to 31.
C8_Witness ==
    /\ pc = "rs_dt_edit" /\ i = day /\ date[day] = 32
    /\ nEvents = 1 /\ button = downButton /\ newDate[day] = 31

\* Tens digit of a register byte.
TensOf(n) == n \div 16

\* C9: readDateTime on the registers setDateTime wrote returns the date and
\* time written; register 3 keeps its content and has no part in what is
\* read; each written byte is a byte whose tens digit fits the width its
\* register is decoded with (hours 2 bits, minutes and seconds 3, day 2,
\* month 1, year 4).
C9_CodecRoundTrip ==
    [][/\ rtc'[3] = rtc[3]
       /\ (pc = "codec_in" /\ pc' = "codec_written") =>
              /\ \A r \in RtcRegs : rtc'[r] \in 0..255
              /\ TensOf(rtc'[2]) < 4
              /\ TensOf(rtc'[1]) < 8 /\ TensOf(rtc'[0]) < 8
              /\ TensOf(rtc'[4]) < 4
              /\ TensOf(rtc'[5]) < 2
              /\ TensOf(rtc'[6]) < 16
       /\ (pc = "codec_written" /\ pc' = "codec_done") =>
              /\ time' = newTime /\ date' = newDate
              /\ \A n \in {0, 255} :
                    /\ readTime([rtc EXCEPT ![3] = n]) = time'
                    /\ readDate([rtc EXCEPT ![3] = n]) = date'
      ]_vars

\* C9 witness: the year 99, whose tens digit needs all four bits, has been
\* written and read back.
C9_Witness ==
    pc = "codec_done" /\ newDate[year] = 99 /\ date[year] = 99 /\ rtc[6] = 153

\* The percent a level of the sensor line asks for: 50 at 80 and below, 100
\* at 830 and above, one percent per 15 levels between.
Target(level) ==
    IF level <= 80 THEN 50
    ELSE IF level >= 830 THEN 100
    ELSE 50 + ((level - 80) \div 15)

\* C10: a call of updateBrightness moves lastBrightness by at most 1, toward
\* the target and never past it, leaves it alone when it equals the target,
\* and lastBrightness stays within 50..100.
C10_BrightnessRateLimited ==
    [][/\ lastBrightness' \in 50..100
       /\ lastBrightness' # lastBrightness =>
              /\ ldr' = ldr
              /\ lastBrightness < Target(ldr) => lastBrightness' = lastBrightness + 1
              /\ lastBrightness > Target(ldr) => lastBrightness' = lastBrightness - 1
              /\ lastBrightness # Target(ldr)
       /\ (ldr' = ldr /\ lastBrightness # Target(ldr)) => lastBrightness' # lastBrightness
      ]_vars

\* C10 witness: stored 50 and target 100 gave 51 after one call.
C10_Witness ==
    lastBrightness = 51 /\ ldr = 830 /\ Target(ldr) = 100

\* C11: in DisplayDateTime, at every run of the handler outside the cleaning
\* window, seconds with an even floor(seconds / 5) are a time phase and the
\* others a date phase; the first tick of a time phase (seconds 0, 10, 20,
\* 30, 40, 50) renders the time at once, its other ticks cross-fade, the
\* decimal point is off in the time phase, and every tick of a date phase
\* renders the date at once.
C11_DateTimePhases ==
    [][(HandlerStep /\ mode = MODE_DISPLAY_DATETIME /\ ~cathodeClean') =>
          IF (time'[seconds] \div 5) % 2 = 0
          THEN /\ render' = IF time'[seconds] % 10 = 0 THEN "time" ELSE "fade"
               /\ decimalPoint' = LOW
          ELSE render' = "date"
      ]_vars

\* The buzzer loop of line 215 or 223 is running: the main flow is at its
\* test or inside the handleButtons call of its body.
BuzzerLoopRuns == pc = "al_while" \/ ret = "buzz"

\* C12: the buzzer output is high only while a buzzer loop is running: not
\* during the wait that follows the loop, and not while the trigger
\* condition of the other alarm is checked afterwards.
C12_BuzzerLowOutsideLoop == buzzer = HIGH => BuzzerLoopRuns

\* The trigger condition of the alarm handleAlarms is on has just failed.
CheckFailsStep ==
    /\ pc \in AlarmCheckSteps
    /\ (alK = 1 /\ alK' = 2) \/ pc' = "al_end"

\* C13: when a tick brings an enabled alarm's hh:mm:00 with the main flow in
\* the normal loop, the buzzer phase of that alarm is entered for that
\* minute wherever the tick preempts the pass: in the alarm's minute the
\* trigger condition of the enabled alarm is not found false.
C13_AlarmMinuteServed ==
    [][CheckFailsStep =>
          ~(/\ AlEnabled(alarmSettings, alK)
            /\ time[hours] = AlTime(alarmSettings, alK)[hours]
            /\ time[minutes] = AlTime(alarmSettings, alK)[minutes])
      ]_vars

\* The wait that follows the buzzer phase of alarm 1 ends and control moves
\* on to the trigger condition of alarm 2.
Alarm1WaitEndsStep == pc = "al_delay" /\ alK = 1 /\ pc' = "al_chk_en" /\ alK' = 2

\* C14: with both alarms enabled at one set-point, alarm 2 is not skipped
\* because alarm 1 fired and was acknowledged first: when control comes from
\* the buzzer phase of alarm 1 to the trigger condition of alarm 2 in the
\* minute of the set-point, Time is still hh:mm:00, as the condition needs.
C14_SecondAlarmNotSkipped ==
    [][(/\ Alarm1WaitEndsStep
        /\ alarmSettings.al2Enabled
        /\ alarmSettings.al2Time = alarmSettings.al1Time
        /\ time[hours] = alarmSettings.al2Time[hours]
        /\ time[minutes] = alarmSettings.al2Time[minutes])
       => time[seconds] = 0
      ]_vars

\* ---------------------------------------------------------------------------
\* C15: the date/time-edit flow leaves no stale Time behind.  The flow commits
\* its working copies to the RTC; it leaves with the interrupt attached and a
\* tick pending, and a pending tick is served before the main flow takes any
\* other step, storing the RTC's content in Time and Date, so that no alarm
\* check or render after the flow uses the pre-edit Time.
CommitStep == pc = "cdt_commit" /\ pc' = "cdt_exit"

ExitStep == pc = "cdt_exit" /\ pc' # pc

StrobeStep == pc = "cd_strobe" /\ pc' # pc

C16_StrobeLatchesOneRender ==
    [][StrobeStep => \A n \in 1..6 : shiftReg[n] = shiftReg[1]]_vars

\* ---------------------------------------------------------------------------
\* C17 as stated: in every reachable state the cleaning flag being set implies
\* that mode is not Set, so no flow renders an edit or preview frame while
\* the flag is set.
C17_FlagImpliesNotSet == cathodeClean => mode # MODE_SET

\* C17 amended: the flag changes only when the handler runs; the handler
\* leaves it set only outside Set mode and inside the cleaning window, and
\* clear otherwise.  Between two runs of the handler the flag keeps its
\* value, so it can be set in Set mode, but only while the main flow is
\* inside a flow that was entered with the flag set.
C17_FlagFollowsHandler ==
    [][/\ cathodeClean' # cathodeClean => HandlerStep
       /\ (HandlerStep /\ cathodeClean') =>
              (mode' # MODE_SET /\ time'[minutes] % 20 = 0 /\ time'[seconds] < 3)
       /\ (HandlerStep /\ ~cathodeClean') =>
              (mode' = MODE_SET \/ time'[minutes] % 20 # 0 \/ time'[seconds] >= 3)
       /\ (cathodeClean' /\ mode' = MODE_SET) => pc' \in FlowPcs]_vars

\* C17 witness: a flow shows an edit frame in Set mode with the flag set.
C17_Witness == cathodeClean /\ mode = MODE_SET /\ display = "edit"

\* ---------------------------------------------------------------------------
\* C18: whenever the handler renders a cross-fade, its source frame prevTime
\* (read by fadeTo before line 157 overwrites it) equals the Time that was in
\* memory immediately before this sync, which is the Time the preceding run
\* of the handler read, Time being written by the handler only; this also
\* holds when the preceding run rendered nothing.  prevTime is overwritten
\* with the Time just read on every run of the handler.
C18_FadeSourceIsPrecedingTime ==
    [][/\ HandlerStep => (prevTime = time /\ prevTime' = time')
       /\ time' # time => HandlerStep]_vars

\* C18 witness: the cross-fade of second 3 after a cleaning window, the
\* preceding run (second 2) having rendered nothing.
C18_Witness ==
    /\ render = "fade" /\ ~cathodeClean
    /\ time[minutes] % 20 = 0 /\ time[seconds] = 3
    /\ prevTime = time

\* ---------------------------------------------------------------------------
\* C19: buttonIsHeld(b) ends after at most 41 polls: it returns true exactly
\* when 41 polls in a row have decoded b (20 ms counted per poll, 820 being
\* the first count above 800), and false at the first poll that decodes
\* anything else; so handleButtons starts an enable/disable toggle only
\* after a poll has found the alarm button released, and starts a set flow
\* or the date/time edit only when the last poll still decoded the button.
C19_HeldAfter41Polls ==
    [][/\ buttonHeldFor' <= 41 * 20
       /\ (pc = "bih_poll" /\ pc' = "bih_poll") =>
              (polled' = button /\ buttonHeldFor' = buttonHeldFor + 20
               /\ buttonHeldFor' <= 800)
       /\ (pc = "bih_poll" /\ pc' = "bih_true") =>
              (polled' = button /\ buttonHeldFor = 40 * 20 /\ buttonHeldFor' = 41 * 20)
       /\ (pc = "bih_poll" /\ pc' = "bih_false") =>
              (polled' # button /\ buttonHeldFor' = buttonHeldFor /\ buttonHeldFor <= 800)
       /\ pc = "bih_poll" => pc' \in {"bih_poll", "bih_true", "bih_false"}
       /\ pc' \in {"ea_entry", "da"} =>
              (pc = "bih_false" /\ polled # button /\ button \in {al1Button, al2Button})
       /\ pc' \in {"sa_entry", "cdt_entry"} =>
              (pc = "bih_true" /\ polled = button /\ buttonHeldFor = 41 * 20)]_vars

\* C19 witness: the set flow of alarm 2 starts after the 41st poll has decoded
\* the button.
C19_Witness ==
    /\ pc = "sa_entry" /\ button = al2Button /\ alarm = 2
    /\ polled = button /\ buttonHeldFor = 41 * 20

\* ---------------------------------------------------------------------------
\* C20: the cleaning sub-loop of loop() always ends.  Interrupt 0 is attached
\* whenever the main flow is inside the sub-loop; the handler leaves the
\* flag set only at seconds 0, 1 and 2, so with the RTC counting one second
\* per tick the flag is set at no more than 3 ticks in a row; and whenever
\* the main flow is inside the sub-loop with the flag set, it eventually is
\* back at the top of loop(), where brightness, button and alarm handling
\* resume.
InSubLoop == pc \in CleanPcs /\ cathodeClean

C20_CleaningSubLoopEnds ==
    /\ [](pc \in CleanPcs => intEnabled)
    /\ [][/\ (HandlerStep /\ cathodeClean') => time'[seconds] < 3
          /\ RtcSecondStep => intFlag']_vars
    /\ (InSubLoop ~> pc = "loop")

\* C20 witness: the main flow is back at the top of loop() at second 3 of
\* minute 20, having spent seconds 0 to 2 in the sub-loop.
C20_Witness ==
    /\ pc = "loop" /\ ~cathodeClean
    /\ time[minutes] = 20 /\ time[seconds] = 3

====
